---- MODULE Spec2Model ----
(***************************************************************************)
(* AzureCosmosDBNoSqlVectorSearch (llama_index/vector_stores/              *)
(* azurecosmosnosql/base.py): the constructor, add, delete and query of    *)
(* the vector-store adapter, run against a model of the Cosmos container  *)
(* it talks to.                                                            *)
(*                                                                         *)
(* A Python string that the code slices or uses as a field name is a       *)
(* sequence of symbols ("/embedding" is <<"/", "embedding">>); a Python    *)
(* value that may be None is a record with a field none.                   *)
(***************************************************************************)
EXTENDS Integers, Sequences, FiniteSets, TLC

\* store: the Cosmos account (the database, the container, its documents);
\* self: the adapter object; last: the last call made and what came of it.
\* History variables: stored maps each id to the node of the last upsert the
\* store took for it and no delete removed since; deleted holds <<id, existed>>
\* for each id a delete call succeeded on with no add call naming it since.
VARIABLES store, self, last, stored, deleted

vars == <<store, self, last, stored, deleted>>

(* ------------------------------ bounds -------------------------------- *)

\* Longest node list handed to add.
MaxNodes == 2

\* Largest similarity_top_k handed to query.
MaxK == 2

(* --------------------------- Python values ---------------------------- *)

Str(s) == <<s>>

NoneList == [none |-> TRUE, items |-> <<>>]

List(s) == [none |-> FALSE, items |-> s]

\* s[1:] on a string
Slice1(s) == IF Len(s) = 0 THEN <<>> ELSE Tail(s)

Min(a, b) == IF a <= b THEN a ELSE b

Abs(x) == IF x < 0 THEN -x ELSE x

(* ---------------------- constructor parameters ------------------------ *)

DefaultIdKey == Str("id")

DefaultTextKey == Str("text")

DefaultMetadataKey == Str("metadata")

EmbeddingPaths == { <<"/", "embedding">>, <<"/", "vec">> }

VectorIndexesValues == { NoneList, List(<<>>), List(<<"quantizedFlat">>) }

\* vector_embedding_policy: None, or a dict whose "vectorEmbeddings" is None,
\* empty, or one entry with a path.
VectorEmbeddingPolicyValues ==
    { [none |-> TRUE, vectorEmbeddings |-> NoneList],
      [none |-> FALSE, vectorEmbeddings |-> NoneList],
      [none |-> FALSE, vectorEmbeddings |-> List(<<>>)] }
    \cup { [none |-> FALSE, vectorEmbeddings |-> List(<<[path |-> p]>>)] : p \in EmbeddingPaths }

\* cosmos_container_properties: None, or a dict whose "partition_key" is None or set.
ContainerPropertiesValues ==
    { [none |-> TRUE, partition_key_none |-> TRUE],
      [none |-> FALSE, partition_key_none |-> TRUE],
      [none |-> FALSE, partition_key_none |-> FALSE] }

\* cosmos_database_properties: None (the default) or a dict.
DatabasePropertiesValues == { [none |-> TRUE], [none |-> FALSE] }

\* The (id_key, text_key, metadata_key) triples tried: the defaults and one
\* triple renaming each key in turn.  The names of a triple are distinct.
KeyTriples ==
    { <<DefaultIdKey, DefaultTextKey, DefaultMetadataKey>>,
      <<Str("key"), DefaultTextKey, DefaultMetadataKey>>,
      <<DefaultIdKey, Str("content"), DefaultMetadataKey>>,
      <<DefaultIdKey, DefaultTextKey, Str("meta")>> }

Params(triples) ==
    { [ create_container |-> cc,
        vectorIndexes |-> vi,
        vector_embedding_policy |-> vep,
        cosmos_container_properties |-> cp,
        cosmos_database_properties |-> dp,
        id_key |-> t[1],
        text_key |-> t[2],
        metadata_key |-> t[3] ] :
      cc \in BOOLEAN, vi \in VectorIndexesValues, vep \in VectorEmbeddingPolicyValues,
      cp \in ContainerPropertiesValues, dp \in DatabasePropertiesValues, t \in triples }

(* --------------------------- the store -------------------------------- *)

\* The account before anything was provisioned.
EmptyStore == [databases |-> 0, containers |-> 0, docs |-> {}]

\* create_database_if_not_exists: creates the database unless one of that name exists.
CreateDatabaseIfNotExists(st) ==
    [st EXCEPT !.databases = IF st.databases = 0 THEN 1 ELSE st.databases]

\* create_container_if_not_exists: creates the container unless one of that name exists.
CreateContainerIfNotExists(st) ==
    [st EXCEPT !.containers = IF st.containers = 0 THEN 1 ELSE st.containers]

(* ------------------------------ __init__ ------------------------------ *)

\* No constructor call: a parameter record that stands for none.
NoParams ==
    [ create_container |-> FALSE,
      vectorIndexes |-> NoneList,
      vector_embedding_policy |-> [none |-> TRUE, vectorEmbeddings |-> NoneList],
      cosmos_container_properties |-> [none |-> TRUE, partition_key_none |-> TRUE],
      cosmos_database_properties |-> [none |-> TRUE],
      id_key |-> <<>>, text_key |-> <<>>, metadata_key |-> <<>> ]

NoAdapter == [bound |-> FALSE, params |-> NoParams, embedding_key |-> <<>>]

Raise(st, calls, err) ==
    [store |-> st, calls |-> calls, status |-> "raise", error |-> err]

\* The checks with the partition-key check left out.
ValidateWithoutPartitionKey(p) ==
    IF ~p.create_container THEN "ok"
    ELSE IF p.vectorIndexes.none \/ Len(p.vectorIndexes.items) = 0 THEN "ValueError"
    ELSE IF p.vector_embedding_policy.none THEN "ValueError"
    ELSE IF p.vector_embedding_policy.vectorEmbeddings.none THEN "TypeError"
    ELSE IF Len(p.vector_embedding_policy.vectorEmbeddings.items) = 0 THEN "ValueError"
    ELSE "ok"

\* The create_container checks: "ok" or the exception raised.
ValidateCreateContainer(p) ==
    IF ~p.create_container THEN "ok"
    ELSE IF p.vectorIndexes.none \/ Len(p.vectorIndexes.items) = 0 THEN "ValueError"
    ELSE IF p.vector_embedding_policy.none THEN "ValueError"
    ELSE IF p.vector_embedding_policy.vectorEmbeddings.none THEN "TypeError"
    ELSE IF Len(p.vector_embedding_policy.vectorEmbeddings.items) = 0 THEN "ValueError"
    ELSE IF p.cosmos_container_properties.none
            \/ p.cosmos_container_properties.partition_key_none THEN "ValueError"
    ELSE "ok"

\* vector_embedding_policy["vectorEmbeddings"][0]["path"][1:]: the exception
\* raised, or "ok" with the key.
EmbeddingKey(p) ==
    IF p.vector_embedding_policy.none \/ p.vector_embedding_policy.vectorEmbeddings.none
    THEN [status |-> "TypeError", key |-> <<>>]
    ELSE IF Len(p.vector_embedding_policy.vectorEmbeddings.items) = 0
    THEN [status |-> "IndexError", key |-> <<>>]
    ELSE [status |-> "ok",
          key |-> Slice1(p.vector_embedding_policy.vectorEmbeddings.items[1].path)]

\* The call of create_database_if_not_exists, its arguments evaluated first.
ProvisionDatabase(p, st) ==
    IF p.cosmos_database_properties.none
    THEN Raise(st, <<>>, "AttributeError")
    ELSE [store |-> CreateDatabaseIfNotExists(st),
          calls |-> <<"create_database_if_not_exists">>,
          status |-> "ok", error |-> "none"]

\* The call of create_container_if_not_exists, its arguments evaluated first.
\* The store refuses a container without a partition key.
ProvisionContainer(p, st, calls) ==
    IF p.cosmos_container_properties.none
    THEN Raise(st, calls, "TypeError")
    ELSE IF p.cosmos_container_properties.partition_key_none
    THEN Raise(st, Append(calls, "create_container_if_not_exists"), "CosmosHttpResponseError")
    ELSE [store |-> CreateContainerIfNotExists(st),
          calls |-> Append(calls, "create_container_if_not_exists"),
          status |-> "ok", error |-> "none"]

\* __init__ against store st: the store afterwards, the store calls issued,
\* and the exception raised, if any.
Construct(p, st) ==
    LET v == ValidateCreateContainer(p)
        ek == EmbeddingKey(p)
    IN  IF v # "ok" THEN Raise(st, <<>>, v)
        ELSE IF ek.status # "ok" THEN Raise(st, <<>>, ek.status)
        ELSE LET db == ProvisionDatabase(p, st)
             IN  IF db.status # "ok" THEN db
                 ELSE ProvisionContainer(p, db.store, db.calls)

\* The adapter object a successful __init__ leaves.
Adapter(p) == [bound |-> TRUE, params |-> p, embedding_key |-> EmbeddingKey(p).key]

(* ------------------------------- nodes -------------------------------- *)

NodeIds == {"a", "b"}

\* The nodes tried: two of the same id with different content, and a third.
\* A metadata dict is its set of items.
Node(i, vec, text, metadata) ==
    [node_id |-> i, embedding |-> [none |-> FALSE, vec |-> vec],
     text |-> text, metadata |-> metadata]

Nodes ==
    { Node("a", 1, "hello", {<<"a", 1>>}),
      Node("a", 3, "", {}),
      Node("b", 3, "hello", {}) }

NodeLists == UNION { [1..n -> Nodes] : n \in 0..MaxNodes }

QueryVectors == {0, 2, 4}

\* node_to_metadata_dict(node, remove_text=True, flat_metadata=True): the node's
\* metadata plus the node serialised without its text and its embedding.
NodeToMetadataDict(node) ==
    [user |-> node.metadata,
     node_content |-> [node_id |-> node.node_id, text |-> "",
                       metadata |-> node.metadata,
                       embedding |-> [none |-> TRUE, vec |-> 0]],
     node_type |-> "TextNode"]

\* metadata_dict_to_node(blob): the node deserialised from the blob.
MetadataDictToNode(blob) ==
    [node_id |-> blob.node_content.node_id,
     embedding |-> blob.node_content.embedding,
     text |-> blob.node_content.text,
     metadata |-> blob.node_content.metadata]

\* node.set_content(value)
SetContent(node, value) == [node EXCEPT !.text = value]

\* x or ""
OrEmpty(x) == IF x = "" THEN "" ELSE x

(* --------------------------- the container ---------------------------- *)

IdField == Str("id")

ScoreField == Str("SimilarityScore")

\* The store takes a document only if it carries an id.
ValidDocument(item) == IdField \in DOMAIN item

\* upsert_item: the document replaces the one of the same id, if any.
UpsertItem(docs, item) == { d \in docs : d[IdField] # item[IdField] } \cup { item }

\* delete_item(id, partition_key): the container is partitioned by id.
DeleteItem(docs, id, pk) == { d \in docs : ~(d[IdField] = id /\ d[IdField] = pk) }

HasItem(docs, id, pk) == \E d \in docs : d[IdField] = id /\ d[IdField] = pk

Restrict(f, S) == [x \in (DOMAIN f) \cap S |-> f[x]]

Range(s) == { s[i] : i \in DOMAIN s }

\* x is not ranked after y by ORDER BY VectorDistance(c.<field>, @embedding).
NotAfter(x, y, field, vector) ==
    (field \in DOMAIN x /\ field \in DOMAIN y) => Abs(x[field] - vector) <= Abs(y[field] - vector)

\* The row SELECT makes of document d.
Row(d, fields, field, vector) ==
    Restrict(d, fields)
    @@ (IF field \in DOMAIN d THEN ScoreField :> Abs(d[field] - vector) ELSE <<>>)

\* query_items for SELECT TOP k <fields>, VectorDistance(c.<field>, @embedding) AS
\* SimilarityScore FROM c ORDER BY VectorDistance(c.<field>, @embedding): every row
\* sequence the store may return.  Ties come in any order; documents without the
\* field are left out or returned unranked.
QueryItems(docs, fields, field, k, vector) ==
    LET ranked == { d \in docs : field \in DOMAIN d }
        Answers(C) ==
            LET n == Min(k, Cardinality(C))
            IN  { s \in [1..n -> C] :
                    /\ \A i, j \in 1..n : i < j => s[i] # s[j] /\ NotAfter(s[i], s[j], field, vector)
                    /\ \A d \in C \ Range(s) : \A i \in 1..n : NotAfter(s[i], d, field, vector) }
    IN  { [i \in DOMAIN s |-> Row(s[i], fields, field, vector)] : s \in Answers(ranked) \cup Answers(docs) }

(* -------------------------------- add ---------------------------------- *)

\* The dict add builds of a node; a key written twice keeps the later value.
BuildEntry(a, node) ==
    (a.params.metadata_key :> NodeToMetadataDict(node))
    @@ (a.params.text_key :> OrEmpty(node.text))
    @@ (a.embedding_key :> node.embedding.vec)
    @@ (a.params.id_key :> node.node_id)

\* for item in data_to_insert: self._container.upsert_item(item), then return ids;
\* the store fails the f-th call (f = 0: none) or refuses a malformed document.
RECURSIVE UpsertLoop(_, _, _, _, _, _)
UpsertLoop(items, ids, i, docs, calls, f) ==
    IF i > Len(items)
    THEN [docs |-> docs, calls |-> calls, status |-> "ok", error |-> "none",
          store_error |-> "none", ids |-> ids]
    ELSE IF ~ValidDocument(items[i])
    THEN [docs |-> docs, calls |-> Append(calls, items[i]), status |-> "raise",
          error |-> "BadRequest", store_error |-> "BadRequest", ids |-> <<>>]
    ELSE IF i = f
    THEN [docs |-> docs, calls |-> Append(calls, items[i]), status |-> "raise",
          error |-> "ServiceUnavailable", store_error |-> "ServiceUnavailable", ids |-> <<>>]
    ELSE UpsertLoop(items, ids, i + 1, UpsertItem(docs, items[i]), Append(calls, items[i]), f)

\* The two loops of add over a non-empty list.
AddLoop(a, docs, nodes, f) ==
    UpsertLoop([i \in 1..Len(nodes) |-> BuildEntry(a, nodes[i])],
               [i \in 1..Len(nodes) |-> nodes[i].node_id],
               1, docs, <<>>, f)

\* add as a transaction: a failed batch leaves the container as it was.
AddAllOrNothing(a, docs, nodes, f) ==
    IF Len(nodes) = 0
    THEN [docs |-> docs, calls |-> <<>>, status |-> "raise", error |-> "Exception",
          store_error |-> "none", ids |-> <<>>]
    ELSE IF AddLoop(a, docs, nodes, f).status = "ok" THEN AddLoop(a, docs, nodes, f)
    ELSE [AddLoop(a, docs, nodes, f) EXCEPT !.docs = docs]

\* add taking an empty list as nothing to do.
AddEmptyIsNoOp(a, docs, nodes, f) ==
    IF Len(nodes) = 0
    THEN [docs |-> docs, calls |-> <<>>, status |-> "ok", error |-> "none",
          store_error |-> "none", ids |-> <<>>]
    ELSE AddLoop(a, docs, nodes, f)

\* add collecting the ids in a set: an id given twice is returned once.
AddDistinctIds(a, docs, nodes, f) ==
    IF Len(nodes) = 0
    THEN [docs |-> docs, calls |-> <<>>, status |-> "raise", error |-> "Exception",
          store_error |-> "none", ids |-> <<>>]
    ELSE UpsertLoop([i \in 1..Len(nodes) |-> BuildEntry(a, nodes[i])],
                    SelectSeq([i \in 1..Len(nodes) |->
                                  IF \E j \in 1..(i - 1) : nodes[j].node_id = nodes[i].node_id
                                  THEN "" ELSE nodes[i].node_id],
                              LAMBDA x : x # ""),
                    1, docs, <<>>, f)

\* add(nodes): the documents afterwards, the upserts issued, the ids returned
\* or the exception raised.
Add(a, docs, nodes, f) ==
    IF Len(nodes) = 0
    THEN [docs |-> docs, calls |-> <<>>, status |-> "raise", error |-> "Exception",
          store_error |-> "none", ids |-> <<>>]
    ELSE UpsertLoop([i \in 1..Len(nodes) |-> BuildEntry(a, nodes[i])],
                    [i \in 1..Len(nodes) |-> nodes[i].node_id],
                    1, docs, <<>>, f)

(* ------------------------------- delete -------------------------------- *)

\* delete with a partition key that is not the id: the store finds no such item.
DeleteOtherPartition(a, docs, ref_doc_id, fail, strict) ==
    IF fail
    THEN [docs |-> docs, status |-> "raise", error |-> "ServiceUnavailable",
          store_error |-> "ServiceUnavailable"]
    ELSE IF strict /\ ~HasItem(docs, ref_doc_id, "")
    THEN [docs |-> docs, status |-> "raise", error |-> "NotFound", store_error |-> "NotFound"]
    ELSE [docs |-> DeleteItem(docs, ref_doc_id, ""), status |-> "ok",
          error |-> "none", store_error |-> "none"]

\* delete(ref_doc_id): delete_item(ref_doc_id, partition_key=ref_doc_id).  The
\* store may fail the call; whether deleting a missing id is an error is the
\* store's choice (strict).
Delete(a, docs, ref_doc_id, fail, strict) ==
    IF fail
    THEN [docs |-> docs, status |-> "raise", error |-> "ServiceUnavailable",
          store_error |-> "ServiceUnavailable"]
    ELSE IF strict /\ ~HasItem(docs, ref_doc_id, ref_doc_id)
    THEN [docs |-> docs, status |-> "raise", error |-> "NotFound", store_error |-> "NotFound"]
    ELSE [docs |-> DeleteItem(docs, ref_doc_id, ref_doc_id), status |-> "ok",
          error |-> "none", store_error |-> "none"]

(* -------------------------------- query -------------------------------- *)

\* The fields the query text selects, and the field it measures the distance over.
SelectedFields == { Str("id"), Str("embedding"), Str("text"), Str("metadata") }

DistanceField == Str("embedding")

\* The keys the loop body reads of a row.
RowKeys(a) == { a.params.metadata_key, a.params.text_key, a.params.id_key, ScoreField }

\* The loop body without node.set_content.
DecodeRowStoredText(a, item) ==
    [node |-> MetadataDictToNode(item[a.params.metadata_key]),
     id |-> item[a.params.id_key],
     score |-> item[ScoreField]]

\* The loop body: the node, id and score taken from one row.
DecodeRow(a, item) ==
    [node |-> SetContent(MetadataDictToNode(item[a.params.metadata_key]), item[a.params.text_key]),
     id |-> item[a.params.id_key],
     score |-> item[ScoreField]]

Reverse(s) == [i \in DOMAIN s |-> s[Len(s) + 1 - i]]

\* _query ordering its ids best-last while nodes and scores stay in row order.
QueryIdsReordered(a, rows, fail) ==
    IF fail
    THEN [status |-> "raise", error |-> "ServiceUnavailable", store_error |-> "ServiceUnavailable",
          nodes |-> <<>>, ids |-> <<>>, similarities |-> <<>>]
    ELSE IF \E i \in DOMAIN rows : ~(RowKeys(a) \subseteq DOMAIN rows[i])
    THEN [status |-> "raise", error |-> "KeyError", store_error |-> "none",
          nodes |-> <<>>, ids |-> <<>>, similarities |-> <<>>]
    ELSE [status |-> "ok", error |-> "none", store_error |-> "none",
          nodes |-> [i \in DOMAIN rows |-> DecodeRow(a, rows[i]).node],
          ids |-> Reverse([i \in DOMAIN rows |-> DecodeRow(a, rows[i]).id]),
          similarities |-> [i \in DOMAIN rows |-> DecodeRow(a, rows[i]).score]]

\* _query: the three lists built from the rows the store returned, or the
\* exception raised (the store's, or KeyError at the first row missing a key).
Query(a, rows, fail) ==
    IF fail
    THEN [status |-> "raise", error |-> "ServiceUnavailable", store_error |-> "ServiceUnavailable",
          nodes |-> <<>>, ids |-> <<>>, similarities |-> <<>>]
    ELSE IF \E i \in DOMAIN rows : ~(RowKeys(a) \subseteq DOMAIN rows[i])
    THEN [status |-> "raise", error |-> "KeyError", store_error |-> "none",
          nodes |-> <<>>, ids |-> <<>>, similarities |-> <<>>]
    ELSE [status |-> "ok", error |-> "none", store_error |-> "none",
          nodes |-> [i \in DOMAIN rows |-> DecodeRow(a, rows[i]).node],
          ids |-> [i \in DOMAIN rows |-> DecodeRow(a, rows[i]).id],
          similarities |-> [i \in DOMAIN rows |-> DecodeRow(a, rows[i]).score]]

(* ------------------------- record of the last call -------------------- *)

NoCall ==
    [op |-> "none", params |-> NoParams, rerun |-> FALSE, prev_status |-> "none",
     provisioning |-> <<>>,
     nodes |-> <<>>, ref |-> "", k |-> 0, vector |-> 0, rows |-> <<>>,
     calls |-> <<>>, status |-> "none", error |-> "none", store_error |-> "none",
     ids |-> <<>>, result_nodes |-> <<>>, similarities |-> <<>>]

(* ------------------------------ actions -------------------------------- *)

NoNode == Node("none", 0, "", {})

\* The number of upserts of an add call the store took.
Taken(r) == IF r.status = "ok" THEN Len(r.calls)
            ELSE IF Len(r.calls) = 0 THEN 0 ELSE Len(r.calls) - 1

\* The last of nodes[1..n] with this id, or old if there is none.
LastTaken(nodes, id, n, old) ==
    IF \E j \in 1..n : nodes[j].node_id = id
    THEN nodes[CHOOSE j \in 1..n : /\ nodes[j].node_id = id
                                   /\ \A m \in 1..n : nodes[m].node_id = id => m <= j]
    ELSE old

DoConstruct(p, rerun, prev) ==
    \E r \in {Construct(p, store)} :
        /\ store' = r.store
        /\ self' = IF r.status = "ok" THEN Adapter(p) ELSE self
        /\ last' = [NoCall EXCEPT !.op = "construct", !.params = p, !.rerun = rerun,
                                  !.prev_status = prev,
                                  !.provisioning = r.calls, !.status = r.status,
                                  !.error = r.error]
        /\ UNCHANGED <<stored, deleted>>

\* AzureCosmosDBNoSqlVectorSearch(...) with any parameters.
ConstructAny == \E p \in Params({<<DefaultIdKey, DefaultTextKey, DefaultMetadataKey>>}) :
    DoConstruct(p, FALSE, "none")

\* The same constructor call once more, against the store the first left.
ConstructAgain ==
    /\ last.op = "construct"
    /\ DoConstruct(last.params, TRUE, last.status)

\* The constructor call that built the adapter, once more.
Reconstruct ==
    /\ self.bound
    /\ DoConstruct(self.params, TRUE, "ok")

AddNodes ==
    /\ self.bound
    /\ \E nodes \in NodeLists : \E f \in 0..Len(nodes) :
         \E r \in {Add(self, store.docs, nodes, f)} :
             /\ store' = [store EXCEPT !.docs = r.docs]
             /\ last' = [NoCall EXCEPT !.op = "add", !.nodes = nodes, !.calls = r.calls,
                                       !.status = r.status, !.error = r.error,
                                       !.store_error = r.store_error, !.ids = r.ids]
             /\ stored' = [id \in NodeIds |->
                             LastTaken(nodes, id, Taken(r), stored[id])]
             /\ deleted' = { x \in deleted : \A i \in DOMAIN nodes : nodes[i].node_id # x[1] }
             /\ UNCHANGED self

DeleteDoc ==
    /\ self.bound
    /\ \E ref \in NodeIds : \E fail, strict \in BOOLEAN :
         \E r \in {Delete(self, store.docs, ref, fail, strict)} :
             /\ store' = [store EXCEPT !.docs = r.docs]
             /\ last' = [NoCall EXCEPT !.op = "delete", !.ref = ref, !.status = r.status,
                                       !.error = r.error, !.store_error = r.store_error]
             /\ stored' = [id \in NodeIds |->
                             IF r.docs # store.docs /\ id = ref THEN NoNode ELSE stored[id]]
             /\ deleted' = IF r.status = "ok"
                            THEN { x \in deleted : x[1] # ref }
                                 \cup { <<ref, HasItem(store.docs, ref, ref)>> }
                            ELSE deleted
             /\ UNCHANGED self

QueryTopK ==
    /\ self.bound
    /\ \E k \in 0..MaxK : \E vector \in QueryVectors : \E fail \in BOOLEAN :
       \E rows \in QueryItems(store.docs, SelectedFields, DistanceField, k, vector) :
         \E r \in {Query(self, rows, fail)} :
             /\ last' = [NoCall EXCEPT !.op = "query", !.k = k, !.vector = vector,
                                       !.rows = IF fail THEN <<>> ELSE rows,
                                       !.status = r.status, !.error = r.error,
                                       !.store_error = r.store_error, !.ids = r.ids,
                                       !.result_nodes = r.nodes,
                                       !.similarities = r.similarities]
             /\ UNCHANGED <<store, self, stored, deleted>>

(* ------------------------ construction, alone -------------------------- *)

Init0 ==
    /\ store = EmptyStore
    /\ self = NoAdapter
    /\ last = NoCall
    /\ stored = [id \in NodeIds |-> NoNode]
    /\ deleted = {}

NextInit == ConstructAny \/ ConstructAgain

SpecInit == Init0 /\ [][NextInit]_vars

(* ------------------- the adapter, once constructed --------------------- *)

\* The state a successful constructor call leaves, for each configuration tried:
\* every key triple with the path "/embedding", and the default keys with "/vec".
Init ==
    \E p \in Params(KeyTriples) :
        /\ p.create_container
        /\ Construct(p, EmptyStore).status = "ok"
        /\ \/ p.vector_embedding_policy.vectorEmbeddings.items[1].path = <<"/", "embedding">>
           \/ <<p.id_key, p.text_key, p.metadata_key>> = <<DefaultIdKey, DefaultTextKey, DefaultMetadataKey>>
        /\ store = Construct(p, EmptyStore).store
        /\ self = Adapter(p)
        /\ last = [NoCall EXCEPT !.op = "construct", !.params = p,
                                 !.provisioning = Construct(p, EmptyStore).calls,
                                 !.status = "ok"]
        /\ stored = [id \in NodeIds |-> NoNode]
        /\ deleted = {}

Next == AddNodes \/ DeleteDoc \/ QueryTopK \/ Reconstruct

Spec == Init /\ [][Next]_vars

(* ------------------------------ properties ----------------------------- *)

\* The documents after upserting items[1..n] in order.
RECURSIVE UpsertedPrefix(_, _, _)
UpsertedPrefix(docs, items, n) ==
    IF n = 0 THEN docs ELSE UpsertItem(UpsertedPrefix(docs, items, n - 1), items[n])

\* The document of a node under the adapter's configuration, field by field.
IsDocumentOf(a, item, node) ==
    /\ item[a.params.id_key] = node.node_id
    /\ item[a.embedding_key] = node.embedding.vec
    /\ item[a.params.text_key] = node.text
    /\ item[a.params.metadata_key].user = node.metadata

\* C1: when the i-th upsert of an add call fails, the container holds the
\* documents of nodes 1..i-1 upserted in order onto what it held and nothing of
\* nodes i..N, the caller gets the store's own error, and the upserts issued are
\* exactly those of nodes 1..i, once each.
C1_PartialBatchPersists ==
    [][ (last'.op = "add" /\ last'.status = "raise" /\ Len(last'.calls) >= 1) =>
          /\ Len(last'.calls) <= Len(last'.nodes)
          /\ \A j \in 1..Len(last'.calls) : IsDocumentOf(self, last'.calls[j], last'.nodes[j])
          /\ store'.docs = UpsertedPrefix(store.docs, last'.calls, Len(last'.calls) - 1)
          /\ last'.store_error # "none"
          /\ last'.error = last'.store_error
          /\ last'.ids = <<>> ]_vars

\* C1 witness: the second upsert of a batch failed in the store and the first
\* node's document is in the container.
C1_Witness ==
    /\ last.op = "add" /\ last.status = "raise"
    /\ last.store_error = "ServiceUnavailable"
    /\ Len(last.calls) = 2
    /\ last.nodes[1].node_id # last.nodes[2].node_id
    /\ last.calls[1] \in store.docs
    /\ ~(last.calls[2] \in store.docs)

\* The faults C2 names, in a parameter record whose other values have a valid shape.
NamedFault(p) ==
    /\ \/ p.vectorIndexes.none
       \/ Len(p.vectorIndexes.items) = 0
       \/ p.vector_embedding_policy.none
       \/ Len(p.vector_embedding_policy.vectorEmbeddings.items) = 0
       \/ p.cosmos_container_properties.none
       \/ p.cosmos_container_properties.partition_key_none
    /\ p.vector_embedding_policy.none \/ ~p.vector_embedding_policy.vectorEmbeddings.none

\* C2: with create_container set, a null or empty vector-index list, a null
\* vector-embedding policy or an empty vector-embedding list, null container
\* properties or a null partition key make the constructor raise ValueError
\* before it calls the store.
C2_FailsBeforeAnyStoreCall ==
    (last.op = "construct" /\ last.params.create_container /\ NamedFault(last.params)) =>
        /\ last.status = "raise"
        /\ last.error = "ValueError"
        /\ last.provisioning = <<>>

\* C2 witness: a constructor call whose only fault is the null partition key was refused.
C2_Witness ==
    /\ last.op = "construct" /\ last.params.create_container
    /\ ~last.params.vectorIndexes.none /\ Len(last.params.vectorIndexes.items) > 0
    /\ ~last.params.vector_embedding_policy.none
    /\ Len(last.params.vector_embedding_policy.vectorEmbeddings.items) > 0
    /\ ~last.params.cosmos_container_properties.none
    /\ last.params.cosmos_container_properties.partition_key_none
    /\ ~last.params.cosmos_database_properties.none
    /\ last.status = "raise" /\ last.error = "ValueError"

\* Every parameter but cosmos_database_properties is valid.
ValidButDatabaseProperties(p) ==
    /\ ~p.vectorIndexes.none /\ Len(p.vectorIndexes.items) > 0
    /\ ~p.vector_embedding_policy.none
    /\ ~p.vector_embedding_policy.vectorEmbeddings.none
    /\ Len(p.vector_embedding_policy.vectorEmbeddings.items) > 0
    /\ ~p.cosmos_container_properties.none
    /\ ~p.cosmos_container_properties.partition_key_none

\* C3: a constructor call that leaves cosmos_database_properties out (None) and
\* is otherwise valid returns an adapter, having called
\* create_database_if_not_exists and then create_container_if_not_exists.
C3_DatabasePropertiesOptional ==
    (/\ last.op = "construct"
     /\ ValidButDatabaseProperties(last.params)
     /\ last.params.cosmos_database_properties.none) =>
        /\ last.status = "ok"
        /\ self.bound
        /\ last.provisioning = <<"create_database_if_not_exists", "create_container_if_not_exists">>

\* C4: add of an empty list raises, issues no upsert and leaves the container as it was.
C4_EmptyAddRaises ==
    [][ (last'.op = "add" /\ Len(last'.nodes) = 0) =>
          /\ last'.status = "raise"
          /\ last'.error = "Exception"
          /\ last'.calls = <<>>
          /\ store' = store ]_vars

\* C4 witness: add of an empty list was refused over a container holding documents.
C4_Witness ==
    /\ last.op = "add" /\ Len(last.nodes) = 0 /\ last.status = "raise"
    /\ store.docs # {}

\* C5: an add call that returns has issued one upsert per node, in input order,
\* and returns the nodes' ids in input order, repeated ids included.
C5_OneUpsertPerNodeInOrder ==
    (last.op = "add" /\ last.status = "ok") =>
        /\ Len(last.nodes) > 0
        /\ Len(last.calls) = Len(last.nodes)
        /\ \A j \in 1..Len(last.nodes) : IsDocumentOf(self, last.calls[j], last.nodes[j])
        /\ Len(last.ids) = Len(last.nodes)
        /\ \A j \in 1..Len(last.nodes) : last.ids[j] = last.nodes[j].node_id

\* C5 witness: an add call over two nodes of one id returned.
C5_Witness ==
    /\ last.op = "add" /\ last.status = "ok"
    /\ Len(last.nodes) = 2
    /\ last.nodes[1].node_id = last.nodes[2].node_id
    /\ last.nodes[1] # last.nodes[2]

\* C6: a query that returns never lists an id a delete call succeeded on, unless
\* an add call named that id since.
C6_DeletedIdNotReturned ==
    (last.op = "query" /\ last.status = "ok") =>
        \A x \in deleted : \A i \in 1..Len(last.ids) : last.ids[i] # x[1]

\* C6 witness: a document was deleted, and a query with room for it in its
\* top-k returned the remaining one.
C6_Witness ==
    /\ last.op = "query" /\ last.status = "ok"
    /\ \E x \in deleted : x[2]
    /\ Len(last.ids) = 1
    /\ last.k = 2

\* C7: each node a query returns has the text and the metadata of a node add
\* stored, and the id at its position is that node's id.
C7_RoundTrip ==
    (last.op = "query" /\ last.status = "ok") =>
        \A i \in 1..Len(last.result_nodes) :
            /\ stored[last.ids[i]] # NoNode
            /\ last.result_nodes[i].text = stored[last.ids[i]].text
            /\ last.result_nodes[i].metadata = stored[last.ids[i]].metadata
            /\ last.result_nodes[i].node_id = stored[last.ids[i]].node_id
            /\ last.ids[i] = stored[last.ids[i]].node_id

\* C7 witness: a query returned the node with text "hello" and metadata {"a": 1}.
C7_Witness ==
    /\ last.op = "query" /\ last.status = "ok"
    /\ \E i \in 1..Len(last.result_nodes) :
          /\ last.result_nodes[i].text = "hello"
          /\ last.result_nodes[i].metadata = {<<"a", 1>>}
          /\ last.ids[i] = "a"

\* A configuration every parameter of which is valid, cosmos_database_properties
\* given or left out.
ValidConfiguration(p) == ValidButDatabaseProperties(p)

\* C8: the constructor run twice with one valid configuration raises on neither
\* run and leaves one database and one container.
C8_ConstructTwice ==
    (last.op = "construct" /\ last.rerun /\ ValidConfiguration(last.params)) =>
        /\ last.prev_status = "ok"
        /\ last.status = "ok"
        /\ store.databases = 1
        /\ store.containers = 1

\* C9: a query that returns gives three lists as long as the rows the store
\* returned, position i of each taken from row i.
C9_ParallelSequences ==
    (last.op = "query" /\ last.status = "ok") =>
        /\ Len(last.result_nodes) = Len(last.rows)
        /\ Len(last.ids) = Len(last.rows)
        /\ Len(last.similarities) = Len(last.rows)
        /\ \A i \in 1..Len(last.rows) :
              /\ last.ids[i] = last.rows[i][self.params.id_key]
              /\ last.similarities[i] = last.rows[i][ScoreField]
              /\ last.result_nodes[i].text = last.rows[i][self.params.text_key]
              /\ last.result_nodes[i].metadata = last.rows[i][self.params.metadata_key].node_content.metadata

\* C9 witness: a query for the top 2 of two stored documents returned both.
C9_Witness ==
    /\ last.op = "query" /\ last.status = "ok"
    /\ last.k = 2 /\ Cardinality(store.docs) = 2
    /\ Len(last.ids) = 2 /\ last.ids[1] # last.ids[2]
    /\ last.similarities[1] < last.similarities[2]

\* C10: under every configuration the query names the fields add wrote (it
\* selects the configured id, text and metadata fields and measures the distance
\* over the derived embedding field), so a query over stored documents that the
\* store answers returns them, min(k, documents stored) of them.
C10_QueryReadsWhatAddWrote ==
    (last.op = "query" /\ last.store_error = "none" /\ last.k >= 1 /\ store.docs # {}) =>
        /\ {self.params.id_key, self.params.text_key, self.params.metadata_key}
              \subseteq SelectedFields
        /\ self.embedding_key = DistanceField
        /\ last.status = "ok"
        /\ Len(last.ids) = Min(last.k, Cardinality(store.docs))

\* With cosmos_database_properties given, the constructor run twice with one
\* valid configuration raises on neither run and leaves one database and one container.
ConstructTwiceWithDatabaseProperties ==
    (/\ last.op = "construct" /\ last.rerun /\ ValidConfiguration(last.params)
     /\ ~last.params.cosmos_database_properties.none) =>
        /\ last.prev_status = "ok"
        /\ last.status = "ok"
        /\ store.databases = 1
        /\ store.containers = 1

\* The constructor run again on a working adapter succeeds and changes nothing in the store.
ReconstructChangesNothing ==
    [][ last'.op = "construct" => last'.status = "ok" /\ store' = store ]_vars

====
